---- MODULE Spec2Model ----
(***************************************************************************)
(* ghcd: download a subdirectory of a GitHub repository.                   *)
(*                                                                         *)
(* The model follows the three source units of the command line tool:      *)
(*   utils/parse     parseGitHubUrl                                        *)
(*   utils/download  get, downloadDirectory                                *)
(*   index           main try/catch, createTemporaryDirectory,             *)
(*                   renameDirectory, initializeGit                        *)
(*                                                                         *)
(* Strings are sequences of one-character strings, so that startsWith,     *)
(* split, slice, join and the URL parser are computed character by         *)
(* character.                                                              *)
(*                                                                         *)
(* Spec       a whole run, from the command line to the exit               *)
(* SpecParse  parseGitHubUrl applied to inputs built from segment lists    *)
(* SpecQueue  the download stage with more files than the pool runs at     *)
(*            once, from a state of Spec that awaits the recursive listing *)
(* SpecSizes  the download stage with files of several sizes and files     *)
(*            without a declared size, from the same state                 *)
(* SpecRace   the final rename of two runs that have resolved the same     *)
(*            base name in the same working directory                      *)
(*                                                                         *)
(* The environment: every API request is answered or rejects, fs.mkdir,    *)
(* fs.rename, the file transfers and git succeed or reject, fs.remove      *)
(* succeeds.  An await splits a function into steps; what runs between two *)
(* awaits is one step.  The command line is a location and a second        *)
(* argument that is absent, empty or a name; a transport reports the bytes *)
(* of its file in increasing amounts up to the file's length.              *)
(***************************************************************************)
EXTENDS Integers, Sequences, FiniteSets, TLC

(***************************************************************************)
(* Bounds of the model.                                                    *)
(***************************************************************************)
\* longest list of segments an input of the parser is built from
MaxSegs == 6
\* most entries of a recursive listing in a whole run
MaxFiles == 2
\* most entries of a recursive listing in the download stage taken alone
QueueFiles == 9
\* the candidates X, X-1, ..., X-(k-1) exist before the run, k <= MaxExisting
MaxExisting == 3
\* most failed attempts of the final rename that the model follows
MaxRetries == 4
\* most entries of a recursive listing whose files have several sizes
MaxSized == 3
\* largest declared size of a file
MaxSize == 2

(***************************************************************************)
(* Strings.                                                                *)
(***************************************************************************)
\* the literal "https://github.com/" of parseGitHubUrl
Prefix ==
  <<"h","t","t","p","s",":","/","/","g","i","t","h","u","b",".","c","o","m","/">>

\* what an out-of-range array index yields in JavaScript
Undefined == <<"undefined!">>

\* JavaScript truthiness of a string-or-undefined value
Falsy(v) == v = Undefined \/ v = <<>>

\* String.prototype.startsWith
StartsWith(s, p) == Len(s) >= Len(p) /\ SubSeq(s, 1, Len(p)) = p

\* Array.prototype.join
RECURSIVE Join(_, _)
Join(arr, sep) ==
  IF arr = <<>> THEN <<>>
  ELSE IF Len(arr) = 1 THEN arr[1]
  ELSE arr[1] \o sep \o Join(Tail(arr), sep)

\* String.prototype.split with a one-character separator: the list of the
\* pieces between separators; the empty string splits into one empty piece
RECURSIVE SplitFrom(_, _, _, _)
SplitFrom(s, sep, i, cur) ==
  IF i > Len(s) THEN <<cur>>
  ELSE IF s[i] = sep THEN <<cur>> \o SplitFrom(s, sep, i + 1, <<>>)
  ELSE SplitFrom(s, sep, i + 1, Append(cur, s[i]))

Split(s, sep) == SplitFrom(s, sep, 1, <<>>)

\* arr[i] with JavaScript's zero-based index
At(arr, i) == IF i + 1 <= Len(arr) THEN arr[i + 1] ELSE Undefined

\* arr.slice(i) with JavaScript's zero-based index
Slice(arr, i) == IF i + 1 <= Len(arr) THEN SubSeq(arr, i + 1, Len(arr)) ELSE <<>>

(***************************************************************************)
(* new URL(url).pathname for an https URL (WHATWG URL, special scheme).    *)
(***************************************************************************)
\* leading and trailing spaces are stripped before parsing (tab and newline,
\* which the parser removes anywhere, are no characters of the model)
RECURSIVE TrimRight(_)
TrimRight(s) ==
  IF s # <<>> /\ s[Len(s)] = " " THEN TrimRight(SubSeq(s, 1, Len(s) - 1)) ELSE s

RECURSIVE TrimLeft(_)
TrimLeft(s) == IF s # <<>> /\ s[1] = " " THEN TrimLeft(Tail(s)) ELSE s

\* path percent-encode set, restricted to the characters of the model
PercentEncode(c) == IF c = " " THEN <<"%","2","0">> ELSE <<c>>

IsSlash(c) == c = "/" \/ c = "\\"

\* "shorten a path": drop the last segment, if any
Shorten(path) == IF path = <<>> THEN <<>> ELSE SubSeq(path, 1, Len(path) - 1)

\* the path after a segment `buf` has ended at a slash (slashEnd) or at the
\* end of the path (end of input, "?" or "#")
EndSegment(path, buf, slashEnd) ==
  IF buf = <<".", ".">>
    THEN IF slashEnd THEN Shorten(path) ELSE Append(Shorten(path), <<>>)
  ELSE IF buf = <<".">>
    THEN IF slashEnd THEN path ELSE Append(path, <<>>)
  ELSE Append(path, buf)

\* the "path state" of the URL parser from position i of s
RECURSIVE PathState(_, _, _, _)
PathState(s, i, path, buf) ==
  IF i > Len(s) \/ s[i] = "?" \/ s[i] = "#" THEN EndSegment(path, buf, FALSE)
  ELSE IF IsSlash(s[i]) THEN PathState(s, i + 1, EndSegment(path, buf, TRUE), <<>>)
  ELSE PathState(s, i + 1, path, buf \o PercentEncode(s[i]))

\* index of the first character after the host of "https://host..."
RECURSIVE HostEnd(_, _)
HostEnd(s, i) ==
  IF i > Len(s) \/ IsSlash(s[i]) \/ s[i] = "?" \/ s[i] = "#" THEN i
  ELSE HostEnd(s, i + 1)

\* the list of path segments of the URL ("url's path")
UrlPath(url) ==
  LET s == TrimRight(TrimLeft(url))
      h == HostEnd(s, 9)
      \* "path start state": one leading slash is consumed
      start == IF h <= Len(s) /\ IsSlash(s[h]) THEN h + 1 ELSE h
  IN  PathState(s, start, <<>>, <<>>)

\* the serialised path: "/" before every segment
RECURSIVE SerializePath(_)
SerializePath(path) ==
  IF path = <<>> THEN <<>>
  ELSE <<"/">> \o path[1] \o SerializePath(Tail(path))

UrlPathname(url) == SerializePath(UrlPath(url))

(***************************************************************************)
(* utils/parse: parseGitHubUrl.                                            *)
(***************************************************************************)
InvalidUrl == [error |-> "Invalid GitHub URL"]

\* the location before parseGitHubUrl has run
NoLocation == [error |-> "not parsed"]

\* a slip of lines 9-11: the prefix is prepended without the test
NormalizeUrl_Always(url) == Prefix \o url

\* lines 9-11: the host prefix is optional
NormalizeUrl(url) == IF ~StartsWith(url, Prefix) THEN Prefix \o url ELSE url

\* a slip of lines 15-20: the ref is read one segment early
ParsedFields_RefAtMarker(pathname) ==
  [user |-> At(pathname, 1),
   repository |-> At(pathname, 2),
   branch |-> At(pathname, 3),
   dir |-> Join(Slice(pathname, 5), <<"/">>)]

\* lines 15-20: the fields picked from the split pathname
ParsedFields(pathname) ==
  [user |-> At(pathname, 1),
   repository |-> At(pathname, 2),
   branch |-> At(pathname, 4),
   dir |-> Join(Slice(pathname, 5), <<"/">>)]

\* a slip of line 22: the path is not tested
HasEmptyField_NoDir(parsed) ==
  \/ Falsy(parsed.user)
  \/ Falsy(parsed.repository)
  \/ Falsy(parsed.branch)

\* line 22: the validity test
HasEmptyField(parsed) ==
  \/ Falsy(parsed.user)
  \/ Falsy(parsed.repository)
  \/ Falsy(parsed.branch)
  \/ Falsy(parsed.dir)

\* the result of parseGitHubUrl(url): a location, or InvalidUrl when it throws
parseGitHubUrl(url) ==
  LET pathname == Split(UrlPathname(NormalizeUrl(url)), "/")
      parsed == ParsedFields(pathname)
  IN  IF HasEmptyField(parsed) THEN InvalidUrl ELSE parsed

(***************************************************************************)
(* Names on disk and in the repository.                                    *)
(***************************************************************************)
\* crypto.randomUUID(): a name nothing else uses
TmpName == <<"u","u","i","d">>

\* program.args[1] when given, and the "name" of a downloaded package.json
UserDir == <<"o","u","t">>
PkgName == <<"p","k","g">>
\* the UUID that a second run of the tool draws for its temporary directory
PeerTmpName == <<"u","u","i","d","2">>

\* a tree entry name that is no segment of any requested path
OtherName == <<"z">>

\* String.prototype.replace(/\//g, "-")
RECURSIVE ReplaceSlashes(_)
ReplaceSlashes(s) ==
  IF s = <<>> THEN <<>>
  ELSE <<IF s[1] = "/" THEN "-" ELSE s[1]>> \o ReplaceSlashes(Tail(s))

\* the decimal digits of a natural number, as `"-" + retries` prints it
Digit(d) == <<"0","1","2","3","4","5","6","7","8","9">>[d + 1]

RECURSIVE Digits(_)
Digits(n) == IF n < 10 THEN <<Digit(n)>> ELSE Digits(n \div 10) \o <<Digit(n % 10)>>

\* index line 123: the name derived from the location
FallbackName(loc) == loc.repository \o <<"-">> \o ReplaceSlashes(loc.dir)

\* index line 158: the candidate of the current attempt
CurrentName(bestName, retries) ==
  bestName \o (IF retries # 0 THEN <<"-">> \o Digits(retries) ELSE <<>>)

(***************************************************************************)
(* Inputs of the parser taken alone.                                       *)
(***************************************************************************)
\* segments that the URL parser leaves as they are
PlainSegs == {<<>>, <<"a">>, <<"b">>}

\* segments that the URL parser rewrites, cuts or splits
OddSegs ==
  {<<".">>, <<".", ".">>, <<"a", "\\", "b">>, <<"a", "?", "b">>, <<"#", "b">>,
   <<"a", " ">>, <<" ">>}

\* lists of up to n plain segments
SegLists(n) == UNION {[1..k -> PlainSegs] : k \in 0..n}

\* the list l, or l with its i-th segment replaced by the odd segment o
WithOdd(l, i, o) == IF i \in 1..Len(l) THEN [l EXCEPT ![i] = o] ELSE l

(***************************************************************************)
(* Inputs of a whole run.                                                  *)
(***************************************************************************)
UrlDepth1 == <<"o","/","r","/","t","r","e","e","/","m","/","a">>
UrlDepth2 == Prefix \o <<"o","/","r","/","t","/","m","/","a","/","b">>
UrlInvalid == <<"o","/","r">>

MainUrls == {UrlDepth1, UrlDepth2, UrlInvalid}

\* every base name a run of the model can choose
BaseNames ==
  {UserDir, PkgName}
    \cup {FallbackName(parseGitHubUrl(u)) : u \in {UrlDepth1, UrlDepth2}}

\* the entries of the working directory before the run: the first k candidates
\* of every base name
ExistingBefore(k) == {CurrentName(b, r) : b \in BaseNames, r \in 0..(k - 1)}

(***************************************************************************)
(* The remote API as the walker sees it.                                   *)
(***************************************************************************)
NoToken == "none"
CommitSha == 10
TreeShas == {1, 2}

TreeEntries(names) ==
  [path : names, type : {"tree", "blob"}, sha : TreeShas]

\* the possible answers to a tree-children lookup while `segment` is sought
TreeResponses(segment) ==
  LET E == TreeEntries({segment, OtherName})
  IN  {<<>>} \cup {<<e>> : e \in E} \cup {<<e, f>> : e \in E, f \in E}

\* a slip of download line 98: the kind of the entry is not tested
RECURSIVE FindDirectory_AnyKind(_, _)
FindDirectory_AnyKind(tree, directoryToMatch) ==
  IF tree = <<>> THEN [path |-> Undefined, type |-> "undefined", sha |-> -1]
  ELSE IF directoryToMatch = tree[1].path THEN tree[1]
  ELSE FindDirectory_AnyKind(Tail(tree), directoryToMatch)

\* what Array.prototype.find yields when no entry matches
NoEntry == [path |-> Undefined, type |-> "undefined", sha |-> -1]

\* download lines 97-99: Array.prototype.find, the first entry that matches
RECURSIVE FindDirectory(_, _)
FindDirectory(tree, directoryToMatch) ==
  IF tree = <<>> THEN NoEntry
  ELSE IF directoryToMatch = tree[1].path /\ tree[1].type = "tree" THEN tree[1]
  ELSE FindDirectory(Tail(tree), directoryToMatch)

\* the path of the i-th entry of a recursive listing
FilePath(i) == <<"f">> \o Digits(i)

\* download lines 17 and 19: a numeric field that is absent
NoSize == -1

\* the `??` operator on a numeric field
Nullish(v, default) == IF v = NoSize THEN default ELSE v

\* the kinds of entry of a recursive listing: a tree, which has no size, and
\* a blob of each of the sizes
EntryKinds(sizes) ==
  {[type |-> "tree", size |-> NoSize]} \cup [type : {"blob"}, size : sizes]

\* recursive listings of up to n entries of these kinds
Listings(n, kinds) ==
  UNION {{[i \in 1..k |-> [path |-> FilePath(i), type |-> c[i].type,
                            size |-> c[i].size]] : c \in [1..k -> kinds]}
          : k \in 0..n}

\* recursive listings of up to n entries, trees and blobs of one byte
MixedListings(n) == Listings(n, EntryKinds({1}))

\* recursive listings of up to n entries, empty blobs only
BlobListings(n) == Listings(n, [type : {"blob"}, size : {0}])

\* recursive listings of up to n entries, trees and blobs with a size of
\* 1..MaxSize or without a size
SizedListings(n) == Listings(n, EntryKinds({NoSize} \cup 1..MaxSize))

\* the length of a file's content: the size that the API declares, and one
\* byte when it declares none
Bytes(file) == IF file.size = NoSize THEN 1 ELSE file.size

\* a slip of download line 113: the kind of the entry is not tested
RECURSIVE FilterBlobs_All(_, _)
FilterBlobs_All(listing, i) ==
  IF i > Len(listing) THEN <<>>
  ELSE <<listing[i]>> \o FilterBlobs_All(listing, i + 1)

\* download lines 112-114: the blob entries, in listing order
RECURSIVE FilterBlobs(_, _)
FilterBlobs(listing, i) ==
  IF i > Len(listing) THEN <<>>
  ELSE (IF listing[i].type = "blob" THEN <<listing[i]>> ELSE <<>>)
         \o FilterBlobs(listing, i + 1)

\* download lines 116-119: the total of the progress bar
RECURSIVE SizeAll(_)
SizeAll(filesToDownload) ==
  IF filesToDownload = <<>> THEN 0
  ELSE Nullish(Head(filesToDownload).size, 0) + SizeAll(Tail(filesToDownload))

\* download lines 138-141: the value handleDownloadProgress hands to the bar
RECURSIVE SumTransferred(_)
SumTransferred(transferred) ==
  IF transferred = <<>> THEN 0
  ELSE Nullish(Head(transferred), 0) + SumTransferred(Tail(transferred))

\* a slip of download line 162: the report is added to the counter
OnProgress_Adds(old, transferred) == Nullish(old, 0) + transferred

\* download line 162: the counter of a file is set to the transport's report
OnProgress(old, transferred) == transferred

\* the progress bar before download line 121
NoBar == [total |-> NoSize, value |-> NoSize, active |-> FALSE]

\* download line 134: progressBar.start(sizeAll, 0)
StartBar(total) == [total |-> total, value |-> 0, active |-> TRUE]

\* download line 171: progressBar.stop()
StopBar(bar) == [bar EXCEPT !.active = FALSE]

\* download lines 152-158: the raw file request, which got.stream.get sends
\* without options, so without an Authorization header
DownloadRequest(file) == [kind |-> "raw", target |-> file.path, auth |-> FALSE]

(***************************************************************************)
(* The worker pool: new PQueue({ concurrency: 8 }).                        *)
(***************************************************************************)
Concurrency == 8

\* index line 44: retries of the temporary directory creation
TmpRetries == 3

Active(st) == {i \in DOMAIN st : st[i] = "running"}
Queued(st) == {i \in DOMAIN st : st[i] = "queued"}

\* a slip of the pool: one task too many is let in
CanStart_OneMore(st) == Cardinality({i \in DOMAIN st : st[i] = "running"}) <= 8

\* the queue starts a task only while fewer than `concurrency` are running
CanStart(st) == Cardinality(Active(st)) < Concurrency

\* the queue starts queued tasks in submission order while it can
RECURSIVE StartTasks(_)
StartTasks(st) ==
  IF Queued(st) # {} /\ CanStart(st)
    THEN LET i == CHOOSE j \in Queued(st) : \A k \in Queued(st) : j <= k
         IN  StartTasks([st EXCEPT ![i] = "running"])
    ELSE st

\* the raw file requests of the tasks that a step starts, in starting order
RECURSIVE NewRequests(_, _, _, _)
NewRequests(filesToDownload, st, started, i) ==
  IF i > Len(filesToDownload) THEN <<>>
  ELSE (IF st[i] = "queued" /\ started[i] = "running"
          THEN <<DownloadRequest(filesToDownload[i])>> ELSE <<>>)
         \o NewRequests(filesToDownload, st, started, i + 1)

(***************************************************************************)
(* State.                                                                  *)
(***************************************************************************)
VARIABLES
  args,                     \* program.args[0]
  userPreferredDirectoryName, \* program.args[1], index line 33
  segs,                     \* the segments args was built from (history)
  pc,                       \* where the main control flow stands
  location,                 \* the parsed location, or InvalidUrl
  temporaryDirectoryName,   \* index line 29
  attempts,                 \* failed attempts of createTemporaryDirectory
  disk,                     \* the names of the entries of the working directory
  written,                  \* the files complete in the directory the run made
  exitCode,                 \* -1 while running, then the exit code
  error,                    \* the message the catch block prints
  GITHUB_TOKEN,             \* download line 22
  didLogAuth,               \* download line 35
  authLog,                  \* the "using GitHub API ..." lines printed
  helperCalls,              \* invocations of `gh auth token`
  calls,                    \* the API requests sent, in order
  returned,                 \* the tree each answered request led to
  lookups,                  \* what each answered tree lookup held (history)
  inflight,                 \* an API request awaits its answer
  currentDirectory,         \* sha of download line 80's currentDirectory
  directoryStack,           \* download line 88
  recursiveTree,            \* recursiveTreeResponse.tree, download line 108
  files,                    \* filesToDownload
  transferredSize,          \* filesToDownload[index].transferredSize
  progressBar,              \* download line 121
  status,                   \* the queue's view of each file task
  fetches,                  \* the raw file requests of the started tasks
  manifestName,             \* the name field of the downloaded package.json
  bestName,                 \* index line 131
  retries,                  \* index line 156
  finalDirectoryName,       \* index line 51
  peer                      \* a second run of the tool in the same directory

vars ==
  <<args, userPreferredDirectoryName, segs, pc, location,
    temporaryDirectoryName, attempts, disk, written, exitCode,
    error, GITHUB_TOKEN, didLogAuth, authLog, helperCalls, calls, returned,
    lookups, inflight, currentDirectory, directoryStack, recursiveTree, files,
    transferredSize, progressBar, status, fetches, manifestName, bestName,
    retries, finalDirectoryName, peer>>

parseVars == <<args, userPreferredDirectoryName, segs, location>>
walkVars ==
  <<GITHUB_TOKEN, didLogAuth, authLog, helperCalls, calls, returned, lookups,
    inflight,
    currentDirectory, directoryStack>>
listVars == <<recursiveTree, files>>
poolVars == <<transferredSize, progressBar, status, fetches>>
renameVars == <<manifestName, bestName, retries, finalDirectoryName>>

Running == exitCode = -1

(***************************************************************************)
(* Initial states.                                                         *)
(***************************************************************************)
\* no second run: the run is alone in its working directory
NoPeer ==
  [pc |-> "none", retries |-> 0, finalDirectoryName |-> Undefined,
   empty |-> FALSE, clobbered |-> FALSE, clobbering |-> FALSE]

\* everything but the command line, the token of the environment, the disk
\* and the position of the main flow
InitIdle ==
  /\ peer = NoPeer
  /\ location = NoLocation
  /\ temporaryDirectoryName = Undefined
  /\ attempts = 0
  /\ written = {}
  /\ exitCode = -1
  /\ error = ""
  /\ didLogAuth = FALSE
  /\ authLog = <<>>
  /\ helperCalls = 0
  /\ calls = <<>>
  /\ returned = <<>>
  /\ lookups = <<>>
  /\ inflight = FALSE
  /\ currentDirectory = 0
  /\ directoryStack = <<>>
  /\ recursiveTree = <<>>
  /\ files = <<>>
  /\ transferredSize = <<>>
  /\ progressBar = NoBar
  /\ status = <<>>
  /\ fetches = <<>>
  /\ manifestName = Undefined
  /\ bestName = Undefined
  /\ retries = 0
  /\ finalDirectoryName = Undefined

\* a whole run: the command line, with its second argument absent, empty or
\* a name, process.env.GITHUB_TOKEN and the directory
Init ==
  /\ args \in MainUrls
  /\ userPreferredDirectoryName \in {Undefined, <<>>, UserDir}
  /\ segs = <<>>
  /\ pc = "argv"
  /\ GITHUB_TOKEN \in {NoToken, "env"}
  /\ \E k \in 0..MaxExisting : disk = ExistingBefore(k)
  /\ InitIdle

\* the parser alone: the input is a list of segments joined by "/", with or
\* without the host prefix
InitParse ==
  /\ \E l \in SegLists(MaxSegs), i \in 0..MaxSegs, o \in OddSegs :
       segs = WithOdd(l, i, o)
  /\ args \in {Join(segs, <<"/">>), Prefix \o Join(segs, <<"/">>)}
  /\ userPreferredDirectoryName = UserDir
  /\ pc = "parse"
  /\ GITHUB_TOKEN = NoToken
  /\ disk = {}
  /\ InitIdle

\* the download stage alone: a run that has walked to the directory and
\* awaits the answer to its recursive listing request
InitQueue ==
  /\ peer = NoPeer
  /\ args = UrlDepth1
  /\ userPreferredDirectoryName = UserDir
  /\ segs = <<>>
  /\ pc = "list"
  /\ location = parseGitHubUrl(UrlDepth1)
  /\ temporaryDirectoryName = TmpName
  /\ attempts = 0
  /\ disk = {TmpName}
  /\ written = {}
  /\ exitCode = -1
  /\ error = ""
  /\ GITHUB_TOKEN = "env"
  /\ didLogAuth = TRUE
  /\ authLog = <<"token">>
  /\ helperCalls = 0
  /\ calls = <<[kind |-> "ref", target |-> CommitSha, auth |-> TRUE],
               [kind |-> "tree", target |-> CommitSha, auth |-> TRUE],
               [kind |-> "list", target |-> 1, auth |-> TRUE]>>
  /\ returned = <<CommitSha, 1>>
  /\ lookups = <<[directory |-> TRUE, file |-> FALSE]>>
  /\ inflight = TRUE
  /\ currentDirectory = 1
  /\ directoryStack = <<>>
  /\ recursiveTree = <<>>
  /\ files = <<>>
  /\ transferredSize = <<>>
  /\ progressBar = NoBar
  /\ status = <<>>
  /\ fetches = <<>>
  /\ manifestName = Undefined
  /\ bestName = Undefined
  /\ retries = 0
  /\ finalDirectoryName = Undefined

(***************************************************************************)
(* index: the main control flow.                                           *)
(***************************************************************************)
\* index lines 67-76 when no await is needed: temporaryDirectoryName is unset
\* and the catch block runs to process.exit(1) at once
ExitNow(message) ==
  /\ pc' = "exit"
  /\ exitCode' = 1
  /\ error' = message

\* a slip of index lines 70-72: the catch block does not remove anything
Catch_NoRemove(message) ==
  /\ pc' = "removed"
  /\ error' = message
  /\ exitCode' = exitCode

\* index lines 67-71: the catch block with a temporary directory, up to the
\* await of fs.remove
Catch(message) ==
  /\ pc' = "removing"
  /\ error' = message
  /\ exitCode' = exitCode

\* what commander prints when the required <dir> is not on the command line
MissingDir == "error: missing required argument 'dir'"

\* index lines 18-25: program.parse checks the declared arguments; <url> and
\* <dir> are both declared required, so a command line without the second
\* argument is rejected and commander exits with code 1; an empty string is
\* an argument
ParseCommandLine ==
  /\ Running /\ pc = "argv"
  /\ IF userPreferredDirectoryName = Undefined
       THEN ExitNow(MissingDir)
       ELSE pc' = "parse" /\ UNCHANGED <<exitCode, error>>
  /\ UNCHANGED <<temporaryDirectoryName, attempts, disk, written>>
  /\ UNCHANGED <<peer, parseVars, walkVars, listVars, poolVars, renameVars>>

\* index lines 32-41
ParseArgs ==
  /\ Running /\ pc = "parse"
  /\ location' = parseGitHubUrl(args)
  /\ IF location' = InvalidUrl
       THEN ExitNow(InvalidUrl.error)
       ELSE pc' = "mktemp" /\ UNCHANGED <<exitCode, error>>
  /\ UNCHANGED <<peer, args, userPreferredDirectoryName, segs>>
  /\ UNCHANGED <<temporaryDirectoryName, attempts, disk, written>>
  /\ UNCHANGED <<walkVars, listVars, poolVars, renameVars>>

\* a slip of index line 44: one retry more is granted
RetriesExhausted_OneLate(failed) == failed > 4

\* index lines 43-47: pRetry gives up when the failed attempts exceed
\* `retries`, that is after the first attempt and three retries
RetriesExhausted(failed) == failed > TmpRetries

\* index lines 43-47 and 97-101: one attempt of createTemporaryDirectory under
\* pRetry; fs.mkdir succeeds or rejects
CreateTemporaryDirectory ==
  /\ Running /\ pc = "mktemp"
  /\ \E ok \in BOOLEAN :
       IF ok
         THEN /\ disk' = disk \cup {TmpName}
              /\ temporaryDirectoryName' = TmpName
              /\ pc' = "ref"
              /\ UNCHANGED <<attempts, exitCode, error>>
         ELSE /\ attempts' = attempts + 1
              /\ UNCHANGED <<disk, temporaryDirectoryName>>
              /\ IF RetriesExhausted(attempts')
                   THEN ExitNow("mkdir")
                   ELSE UNCHANGED <<pc, exitCode, error>>
  /\ UNCHANGED written
  /\ UNCHANGED <<peer, parseVars, walkVars, listVars, poolVars, renameVars>>

(***************************************************************************)
(* utils/download: get.                                                    *)
(***************************************************************************)
ApiPhases == {"ref", "tree", "list"}

\* the endpoint of the request of each phase: the branch, or a tree
Endpoint == IF pc = "ref" THEN CommitSha ELSE currentDirectory

\* a slip of download line 42: the mode is logged on every call
LogAuth_EveryCall(log, didLog, token) ==
  Append(log, IF token # NoToken THEN "token" ELSE "anonymously")

\* download lines 42-49: the mode is logged unless it was logged before
LogAuth(log, didLog, token) ==
  IF didLog THEN log
  ELSE Append(log, IF token # NoToken THEN "token" ELSE "anonymously")

\* download lines 37-60 up to the request: the token is looked up with
\* `gh auth token` when there is none, the mode is logged once, the request
\* is sent with the token if there is one
GetSend ==
  /\ Running /\ pc \in ApiPhases /\ ~inflight
  /\ \E helper \in {NoToken, "gh"} :
       /\ GITHUB_TOKEN' = IF GITHUB_TOKEN = NoToken THEN helper ELSE GITHUB_TOKEN
       /\ helperCalls' = IF GITHUB_TOKEN = NoToken THEN helperCalls + 1 ELSE helperCalls
       /\ GITHUB_TOKEN # NoToken => helper = NoToken
  /\ didLogAuth' = TRUE
  /\ authLog' = LogAuth(authLog, didLogAuth, GITHUB_TOKEN')
  /\ calls' = Append(calls, [kind |-> pc, target |-> Endpoint,
                             auth |-> GITHUB_TOKEN' # NoToken])
  /\ inflight' = TRUE
  /\ UNCHANGED <<returned, lookups, currentDirectory, directoryStack>>
  /\ UNCHANGED <<pc, exitCode, error, temporaryDirectoryName, attempts, disk,
                 written>>
  /\ UNCHANGED <<peer, parseVars, listVars, poolVars, renameVars>>

\* the request rejects (transport, rate limit, 404): the walk throws
GetFail ==
  /\ Running /\ pc \in ApiPhases /\ inflight
  /\ inflight' = FALSE
  /\ Catch("api")
  /\ UNCHANGED <<GITHUB_TOKEN, didLogAuth, authLog, helperCalls, calls, returned,
                 lookups, currentDirectory, directoryStack>>
  /\ UNCHANGED <<temporaryDirectoryName, attempts, disk, written>>
  /\ UNCHANGED <<peer, parseVars, listVars, poolVars, renameVars>>

(***************************************************************************)
(* utils/download: downloadDirectory, the walk.                            *)
(***************************************************************************)
\* whether an answer holds a Directory child, and a File child, of that name
Held(tree, name) ==
  [directory |-> \E i \in 1..Len(tree) : tree[i].path = name /\ tree[i].type = "tree",
   file |-> \E i \in 1..Len(tree) : tree[i].path = name /\ tree[i].type = "blob"]

\* a slip of download line 90: the loop stops one segment early
AfterDescent_StopsEarly(stack) == IF Len(stack) > 1 THEN "tree" ELSE "list"

\* download lines 90 and 108: the loop test
AfterDescent(stack) == IF Len(stack) > 0 THEN "tree" ELSE "list"

\* download lines 76-90: the branch lookup answers with the commit
RefRecv ==
  /\ Running /\ pc = "ref" /\ inflight
  /\ inflight' = FALSE
  /\ currentDirectory' = CommitSha
  /\ returned' = Append(returned, CommitSha)
  /\ directoryStack' = Split(location.dir, "/")
  /\ pc' = AfterDescent(directoryStack')
  /\ UNCHANGED <<GITHUB_TOKEN, didLogAuth, authLog, helperCalls, calls, lookups>>
  /\ UNCHANGED <<exitCode, error, temporaryDirectoryName, attempts, disk,
                 written>>
  /\ UNCHANGED <<peer, parseVars, listVars, poolVars, renameVars>>

\* download lines 91-106: one level of the descent
TreeRecv ==
  /\ Running /\ pc = "tree" /\ inflight
  /\ inflight' = FALSE
  /\ \E treeResponse \in TreeResponses(Head(directoryStack)) :
       LET directoryToMatch == Head(directoryStack)
           nextDirectory == FindDirectory(treeResponse, directoryToMatch)
       IN  /\ directoryStack' = Tail(directoryStack)
           /\ lookups' = Append(lookups, Held(treeResponse, directoryToMatch))
           /\ IF nextDirectory # NoEntry
                THEN /\ currentDirectory' = nextDirectory.sha
                     /\ returned' = Append(returned, nextDirectory.sha)
                     /\ pc' = AfterDescent(directoryStack')
                     /\ UNCHANGED <<exitCode, error>>
                ELSE /\ Catch("Could not find directory in tree")
                     /\ UNCHANGED <<currentDirectory, returned>>
  /\ UNCHANGED <<GITHUB_TOKEN, didLogAuth, authLog, helperCalls, calls>>
  /\ UNCHANGED <<temporaryDirectoryName, attempts, disk, written>>
  /\ UNCHANGED <<peer, parseVars, listVars, poolVars, renameVars>>

(***************************************************************************)
(* utils/download: downloadDirectory, the download stage.                  *)
(***************************************************************************)
\* a slip of Promise.all: the first task's resolution resolves the whole
AllDone_First(st) == st = <<>> \/ st[1] = "done"

\* download line 147: queue.addAll resolves when every task has resolved
AllDone(st) == \A i \in DOMAIN st : st[i] = "done"

\* download lines 108-147 (and 171 when there is no file): the recursive
\* listing answers; the blobs are filtered, the progress bar is started with
\* their total size and queue.addAll submits one task per blob, which starts
\* the first `concurrency` of them
ListRecv(listings) ==
  /\ Running /\ pc = "list" /\ inflight
  /\ inflight' = FALSE
  /\ \E listing \in listings :
       /\ recursiveTree' = listing
       /\ files' = FilterBlobs(listing, 1)
  /\ transferredSize' = [i \in 1..Len(files') |-> NoSize]
  /\ LET queued == [i \in 1..Len(files') |-> "queued"]
     IN  /\ status' = StartTasks(queued)
         /\ fetches' = NewRequests(files', queued, status', 1)
  /\ IF AllDone(status')
       THEN pc' = "bestName" /\ progressBar' = StopBar(StartBar(SizeAll(files')))
       ELSE pc' = "downloading" /\ progressBar' = StartBar(SizeAll(files'))
  /\ returned' = Append(returned, currentDirectory)
  /\ UNCHANGED <<GITHUB_TOKEN, didLogAuth, authLog, helperCalls, calls, lookups,
                 currentDirectory, directoryStack>>
  /\ UNCHANGED <<exitCode, error, temporaryDirectoryName, attempts, disk,
                 written>>
  /\ UNCHANGED <<peer, parseVars, renameVars>>

\* download line 156: fs.ensureDir of a running task takes effect; it only
\* changes the disk when the directory is missing, which is the case only
\* after the catch block's fs.remove, for a task whose ensureDir was still
\* pending then
EnsureDir(i) ==
  /\ Running /\ i \in DOMAIN status /\ status[i] = "running"
  /\ TmpName \notin disk
  /\ disk' = disk \cup {TmpName}
  /\ UNCHANGED <<pc, exitCode, error, temporaryDirectoryName, attempts, written>>
  /\ UNCHANGED <<peer, parseVars, walkVars, listVars, poolVars, renameVars>>

\* download lines 136-143 and 161-164: the transport reports the bytes of
\* the file transferred so far, more than it reported before and at most the
\* length of the file; the handler stores the report in the file's entry and
\* updates the bar with the sum over all entries
Progress(i) ==
  /\ Running /\ i \in DOMAIN status /\ status[i] = "running"
  /\ \E transferred \in (Nullish(transferredSize[i], 0) + 1)..Bytes(files[i]) :
       transferredSize' =
         [transferredSize EXCEPT ![i] = OnProgress(@, transferred)]
  /\ progressBar' = [progressBar EXCEPT !.value = SumTransferred(transferredSize')]
  /\ UNCHANGED <<status, fetches>>
  /\ UNCHANGED <<pc, exitCode, error, temporaryDirectoryName, attempts, disk,
                 written>>
  /\ UNCHANGED <<peer, parseVars, walkVars, listVars, renameVars>>

\* download lines 149-171: the task's promise resolves, after the transport
\* has reported the whole file and the file is written, in the temporary
\* directory if that still exists; the queue starts the next task; when
\* every task has resolved, queue.addAll resolves, the bar is stopped and the
\* main flow goes on to renameDirectory
TaskDone(i) ==
  /\ Running /\ i \in DOMAIN status /\ status[i] = "running"
  /\ Nullish(transferredSize[i], 0) = Bytes(files[i])
  /\ status' = StartTasks([status EXCEPT ![i] = "done"])
  /\ fetches' = fetches \o NewRequests(files, status, status', 1)
  /\ written' = IF temporaryDirectoryName \in disk THEN written \cup {i} ELSE written
  /\ IF pc = "downloading" /\ AllDone(status')
       THEN pc' = "bestName" /\ progressBar' = StopBar(progressBar)
       ELSE UNCHANGED <<pc, progressBar>>
  /\ UNCHANGED <<transferredSize, exitCode, error, temporaryDirectoryName,
                 attempts, disk>>
  /\ UNCHANGED <<peer, parseVars, walkVars, listVars, renameVars>>

\* download lines 149-167: the task's promise rejects; the queue starts the
\* next task; queue.addAll is a Promise.all, which rejects with the first
\* rejection, so the main flow enters its catch block and download line 171
\* is not reached
TaskFail(i) ==
  /\ Running /\ i \in DOMAIN status /\ status[i] = "running"
  /\ status' = StartTasks([status EXCEPT ![i] = "failed"])
  /\ fetches' = fetches \o NewRequests(files, status, status', 1)
  /\ IF pc = "downloading"
       THEN Catch("download")
       ELSE UNCHANGED <<pc, exitCode, error>>
  /\ UNCHANGED <<transferredSize, progressBar, temporaryDirectoryName, attempts,
                 disk, written>>
  /\ UNCHANGED <<peer, parseVars, walkVars, listVars, renameVars>>

(***************************************************************************)
(* index: the catch block.                                                 *)
(***************************************************************************)
\* a slip of index line 71: the directory is removed under its final name too
RemoveTemp_AndFinal ==
  /\ Running /\ pc = "removing"
  /\ disk' = disk \ {temporaryDirectoryName, finalDirectoryName}
  /\ written' = {}
  /\ pc' = "removed"
  /\ UNCHANGED <<exitCode, error, temporaryDirectoryName, attempts>>
  /\ UNCHANGED <<peer, parseVars, walkVars, listVars, poolVars, renameVars>>

\* index line 71: fs.remove(temporaryDirectoryName) takes effect; the
\* directory of that name, if there is one, goes with the files in it
RemoveTemp ==
  /\ Running /\ pc = "removing"
  /\ disk' = disk \ {temporaryDirectoryName}
  /\ written' = IF temporaryDirectoryName \in disk THEN {} ELSE written
  /\ pc' = "removed"
  /\ UNCHANGED <<exitCode, error, temporaryDirectoryName, attempts>>
  /\ UNCHANGED <<peer, parseVars, walkVars, listVars, poolVars, renameVars>>

\* process.exit ends every task that has not settled
Killed(st) ==
  [i \in DOMAIN st |-> IF st[i] \in {"running", "queued"} THEN "killed" ELSE st[i]]

\* index lines 74-75: the main flow resumes after the await and exits
Exit ==
  /\ Running /\ pc = "removed"
  /\ pc' = "exit"
  /\ exitCode' = 1
  /\ status' = Killed(status)
  /\ UNCHANGED <<transferredSize, progressBar, fetches>>
  /\ UNCHANGED <<error, temporaryDirectoryName, attempts, disk, written>>
  /\ UNCHANGED <<peer, parseVars, walkVars, listVars, renameVars>>

(***************************************************************************)
(* index: renameDirectory and initializeGit.                               *)
(***************************************************************************)
\* what fs.readJSON of the downloaded package.json can give: it throws
\* (Undefined), or the manifest has no or an empty name, or it has a name;
\* a directory without a file has no package.json
ManifestNames(filesToDownload) ==
  IF filesToDownload = <<>> THEN {Undefined} ELSE {Undefined, <<>>, PkgName}

\* a slip of index lines 108-118: the manifest is consulted first
getBestName_ManifestFirst(loc, manifest, userPreferred) ==
  IF ~Falsy(manifest) THEN manifest
  ELSE IF ~Falsy(userPreferred) THEN userPreferred
  ELSE FallbackName(loc)

\* index lines 103-124: the explicit name, else the manifest's, else the
\* name derived from the location
getBestName(loc, manifest, userPreferred) ==
  IF ~Falsy(userPreferred) THEN userPreferred
  ELSE IF ~Falsy(manifest) THEN manifest
  ELSE FallbackName(loc)

\* index lines 137-154: when the explicit name was chosen and the manifest
\* is readable, the manifest is rewritten with that name
RewriteManifest(manifest, best, userPreferred) ==
  IF best = userPreferred /\ manifest # Undefined THEN best ELSE manifest

\* index lines 131-156: the downloaded package.json is read here and nowhere
\* else
ChooseBestName ==
  /\ Running /\ pc = "bestName"
  /\ \E manifest \in ManifestNames(files) :
       /\ bestName' = getBestName(location, manifest, userPreferredDirectoryName)
       /\ manifestName' =
            RewriteManifest(manifest, bestName', userPreferredDirectoryName)
  /\ retries' = 0
  /\ pc' = "probe"
  /\ UNCHANGED <<finalDirectoryName, exitCode, error, temporaryDirectoryName,
                 attempts, disk, written>>
  /\ UNCHANGED <<peer, parseVars, walkVars, listVars, poolVars>>

\* index lines 158-162 and 173-175: the existence probe of one attempt; a
\* collision throws, onFailedAttempt counts it and pRetry tries again
Probe ==
  /\ Running /\ pc = "probe"
  /\ IF CurrentName(bestName, retries) \in disk
       THEN retries' = retries + 1 /\ pc' = "probe"
       ELSE retries' = retries /\ pc' = "rename"
  /\ UNCHANGED <<manifestName, bestName, finalDirectoryName, exitCode, error,
                 temporaryDirectoryName, attempts, disk, written>>
  /\ UNCHANGED <<peer, parseVars, walkVars, listVars, poolVars>>

\* index line 164 when the new name has come to exist since the probe:
\* rename(2) replaces a directory that is empty and rejects on one that
\* holds files; the directories that can appear after the probe are the ones
\* the two runs produce, and a run's directory is empty when it downloaded
\* no file
Replaceable(name) ==
  /\ name \in disk
  /\ \/ name = peer.finalDirectoryName /\ peer.empty
     \/ name = finalDirectoryName /\ files = <<>>

\* a slip of index line 164: the directory is copied, not renamed
Rename_Copy ==
  /\ Running /\ pc = "rename"
  /\ disk' = disk \cup {CurrentName(bestName, retries)}
  /\ finalDirectoryName' = CurrentName(bestName, retries)
  /\ \E init \in BOOLEAN :
       IF init
         THEN pc' = "git" /\ exitCode' = exitCode
         ELSE pc' = "done" /\ exitCode' = 0
  /\ UNCHANGED <<manifestName, bestName, retries, error,
                 temporaryDirectoryName, attempts, written>>
  /\ UNCHANGED <<peer, parseVars, walkVars, listVars, poolVars>>

\* index lines 164-166, 178 and 57-66: fs.rename succeeds, the directory
\* keeps its files under the new name; --init, read here and nowhere else,
\* decides whether initializeGit runs
Rename ==
  /\ Running /\ pc = "rename"
  /\ CurrentName(bestName, retries) \in disk => Replaceable(CurrentName(bestName, retries))
  /\ disk' = (disk \ {temporaryDirectoryName}) \cup {CurrentName(bestName, retries)}
  /\ finalDirectoryName' = CurrentName(bestName, retries)
  /\ peer' = IF CurrentName(bestName, retries) \in disk
               THEN [peer EXCEPT !.clobbered = TRUE] ELSE peer
  /\ \E init \in BOOLEAN :
       IF init
         THEN pc' = "git" /\ exitCode' = exitCode
         ELSE pc' = "done" /\ exitCode' = 0
  /\ UNCHANGED <<manifestName, bestName, retries, error,
                 temporaryDirectoryName, attempts, written>>
  /\ UNCHANGED <<parseVars, walkVars, listVars, poolVars>>

\* index lines 164 and 169-176: fs.rename rejects (a missing parent of the
\* candidate, a permission, a new name that has come to exist); pRetry
\* retries every error, so onFailedAttempt counts it and the next candidate
\* is tried
RenameFail ==
  /\ Running /\ pc = "rename"
  /\ retries < MaxRetries \/ CurrentName(bestName, retries) \in disk
  /\ retries' = retries + 1
  /\ pc' = "probe"
  /\ UNCHANGED <<manifestName, bestName, finalDirectoryName, exitCode, error,
                 temporaryDirectoryName, attempts, disk, written>>
  /\ UNCHANGED <<peer, parseVars, walkVars, listVars, poolVars>>

\* index lines 57-66 and 78-95: initializeGit succeeds and the run is done,
\* or one of its commands fails and the catch block runs; the download has
\* no .git entry for line 79 to remove
InitializeGit ==
  /\ Running /\ pc = "git"
  /\ \E ok \in BOOLEAN :
       IF ok
         THEN pc' = "done" /\ exitCode' = 0 /\ error' = error
         ELSE Catch("git")
  /\ UNCHANGED <<temporaryDirectoryName, attempts, disk, written>>
  /\ UNCHANGED <<peer, parseVars, walkVars, listVars, poolVars, renameVars>>

(***************************************************************************)
(* index: renameDirectory as a second run of the tool executes it, in the  *)
(* same working directory and with the same base name.                     *)
(***************************************************************************)
\* index lines 158-162 and 173-175 in the second run
PeerProbe ==
  /\ peer.pc = "probe"
  /\ peer' = IF CurrentName(bestName, peer.retries) \in disk
               THEN [peer EXCEPT !.retries = @ + 1]
               ELSE [peer EXCEPT !.pc = "rename"]
  /\ UNCHANGED <<pc, exitCode, error, temporaryDirectoryName, attempts, disk,
                 written>>
  /\ UNCHANGED <<parseVars, walkVars, listVars, poolVars, renameVars>>

\* index lines 164-166 in the second run: fs.rename succeeds
PeerRename ==
  /\ peer.pc = "rename"
  /\ CurrentName(bestName, peer.retries) \in disk
       => Replaceable(CurrentName(bestName, peer.retries))
  /\ disk' = (disk \ {PeerTmpName}) \cup {CurrentName(bestName, peer.retries)}
  /\ peer' = [peer EXCEPT !.pc = "done",
                          !.finalDirectoryName = CurrentName(bestName, peer.retries),
                          !.clobbering = CurrentName(bestName, peer.retries) \in disk]
  /\ UNCHANGED <<pc, exitCode, error, temporaryDirectoryName, attempts, written>>
  /\ UNCHANGED <<parseVars, walkVars, listVars, poolVars, renameVars>>

\* index lines 164 and 169-176 in the second run: fs.rename rejects
PeerRenameFail ==
  /\ peer.pc = "rename"
  /\ peer.retries < MaxRetries \/ CurrentName(bestName, peer.retries) \in disk
  /\ peer' = [peer EXCEPT !.pc = "probe", !.retries = @ + 1]
  /\ UNCHANGED <<pc, exitCode, error, temporaryDirectoryName, attempts, disk,
                 written>>
  /\ UNCHANGED <<parseVars, walkVars, listVars, poolVars, renameVars>>

(***************************************************************************)
(* Specifications.                                                         *)
(***************************************************************************)
Next ==
  \/ ParseCommandLine
  \/ ParseArgs
  \/ CreateTemporaryDirectory
  \/ GetSend
  \/ GetFail
  \/ RefRecv
  \/ TreeRecv
  \/ ListRecv(MixedListings(MaxFiles))
  \/ \E i \in 1..MaxFiles : EnsureDir(i)
  \/ \E i \in 1..MaxFiles : Progress(i)
  \/ \E i \in 1..MaxFiles : TaskDone(i)
  \/ \E i \in 1..MaxFiles : TaskFail(i)
  \/ RemoveTemp
  \/ Exit
  \/ ChooseBestName
  \/ Probe
  \/ Rename
  \/ RenameFail
  \/ InitializeGit

Spec == Init /\ [][Next]_vars

\* the parser applied to every input of InitParse
NextParse == ParseArgs

SpecParse == InitParse /\ [][NextParse]_vars

\* the download stage with more files than the pool runs at once; the files
\* are empty, so that no transfer has progress to report
NextQueue ==
  \/ ListRecv(BlobListings(QueueFiles))
  \/ \E i \in 1..QueueFiles : EnsureDir(i)
  \/ \E i \in 1..QueueFiles : TaskDone(i)
  \/ \E i \in 1..QueueFiles : TaskFail(i)
  \/ RemoveTemp
  \/ Exit

SpecQueue == InitQueue /\ [][NextQueue]_vars

\* the download stage with files of several sizes and without a size
NextSizes ==
  \/ ListRecv(SizedListings(MaxSized))
  \/ \E i \in 1..MaxSized : EnsureDir(i)
  \/ \E i \in 1..MaxSized : Progress(i)
  \/ \E i \in 1..MaxSized : TaskDone(i)
  \/ \E i \in 1..MaxSized : TaskFail(i)
  \/ RemoveTemp
  \/ Exit

SpecSizes == InitQueue /\ [][NextSizes]_vars

\* the listings of the two runs that race for a name: no file, or one file
RaceListings == Listings(1, [type : {"blob"}, size : {1}])

\* two runs that have downloaded, with or without files, and have resolved
\* the same base name: each is about to probe its first candidate
InitRace ==
  /\ args = UrlDepth1
  /\ userPreferredDirectoryName = UserDir
  /\ segs = <<>>
  /\ pc = "probe"
  /\ location = parseGitHubUrl(UrlDepth1)
  /\ temporaryDirectoryName = TmpName
  /\ attempts = 0
  /\ \E k \in 0..MaxExisting : disk = ExistingBefore(k) \cup {TmpName, PeerTmpName}
  /\ exitCode = -1
  /\ error = ""
  /\ GITHUB_TOKEN = "env"
  /\ didLogAuth = TRUE
  /\ authLog = <<"token">>
  /\ helperCalls = 0
  /\ calls = <<[kind |-> "ref", target |-> CommitSha, auth |-> TRUE],
               [kind |-> "tree", target |-> CommitSha, auth |-> TRUE],
               [kind |-> "list", target |-> 1, auth |-> TRUE]>>
  /\ returned = <<CommitSha, 1, 1>>
  /\ lookups = <<[directory |-> TRUE, file |-> FALSE]>>
  /\ inflight = FALSE
  /\ currentDirectory = 1
  /\ directoryStack = <<>>
  /\ recursiveTree \in RaceListings
  /\ files = FilterBlobs(recursiveTree, 1)
  /\ transferredSize = [i \in 1..Len(files) |-> Bytes(files[i])]
  /\ progressBar = StopBar([StartBar(SizeAll(files)) EXCEPT !.value = SizeAll(files)])
  /\ status = [i \in 1..Len(files) |-> "done"]
  /\ fetches = [i \in 1..Len(files) |-> DownloadRequest(files[i])]
  /\ written = 1..Len(files)
  /\ manifestName = Undefined
  /\ bestName = UserDir
  /\ retries = 0
  /\ finalDirectoryName = Undefined
  /\ \E empty \in BOOLEAN :
       peer = [NoPeer EXCEPT !.pc = "probe", !.empty = empty]

\* the final rename of the two runs, interleaved
NextRace ==
  \/ Probe
  \/ Rename
  \/ RenameFail
  \/ PeerProbe
  \/ PeerRename
  \/ PeerRenameFail

SpecRace == InitRace /\ [][NextRace]_vars

(***************************************************************************)
(* Properties of parseGitHubUrl, checked under SpecParse.                  *)
(***************************************************************************)
Parsed == pc # "parse"

IsPlain(l) == \A i \in 1..Len(l) : l[i] \in PlainSegs

\* some of owner, repository, ref and path is missing or empty in the list
\* of path segments p
MissingField(p) ==
  \/ Len(p) < 5
  \/ p[1] = <<>>
  \/ p[2] = <<>>
  \/ p[4] = <<>>
  \/ Join(SubSeq(p, 5, Len(p)), <<"/">>) = <<>>

\* the location that the segments p spell
LocationOf(p) ==
  [user |-> p[1], repository |-> p[2], branch |-> p[4],
   dir |-> Join(SubSeq(p, 5, Len(p)), <<"/">>)]

\* the path segments of the URL that the input denotes
InputPath == UrlPath(IF StartsWith(args, Prefix) THEN args ELSE Prefix \o args)

\* C1: for an input s without the host prefix, parseGitHubUrl(s) and
\* parseGitHubUrl("https://github.com/" + s) behave identically: both fail
\* with the invalid-location error or both return the same location.
C1_PrefixOptional ==
  (Parsed /\ args = Join(segs, <<"/">>) /\ ~StartsWith(args, Prefix))
    => location = parseGitHubUrl(Prefix \o args)

\* C1 witness: a shorthand input of six segments was parsed to the location
\* that its full form is parsed to
C1_Witness ==
  /\ Parsed /\ args = Join(segs, <<"/">>) /\ Len(segs) = 6
  /\ location # InvalidUrl
  /\ location = parseGitHubUrl(Prefix \o args)

\* C2: parseGitHubUrl fails with "Invalid GitHub URL" whenever owner,
\* repository, ref or path is missing or empty (fewer than five segments, an
\* empty segment at position 1, 2 or 4, an empty remainder after position 4),
\* and it never returns a location with an empty field.
C2_MissingFieldFails ==
  Parsed =>
    /\ (IsPlain(segs) /\ MissingField(segs)) => location = InvalidUrl
    /\ MissingField(InputPath) => location = InvalidUrl
    /\ location # InvalidUrl =>
         \A f \in {"user", "repository", "branch", "dir"} :
           location[f] # <<>> /\ location[f] # Undefined

\* C2 witness: five segments of which the second is empty were rejected
C2_Witness ==
  /\ Parsed /\ IsPlain(segs) /\ Len(segs) = 5
  /\ segs[1] # <<>> /\ segs[2] = <<>> /\ segs[4] # <<>> /\ segs[5] # <<>>
  /\ location = InvalidUrl /\ error = "Invalid GitHub URL"

\* C3: for an input whose URL path has the segments s1/s2/s3/s4/s5/.../sn,
\* n >= 5, the location returned has owner s1, repository s2, ref s4 and the
\* path s5..sn joined by "/", and the outcome does not depend on s3.
C3_SegmentsToFields ==
  Parsed =>
    /\ (IsPlain(segs) /\ Len(segs) >= 5 /\ ~MissingField(segs))
         => location = LocationOf(segs)
    /\ (Len(InputPath) >= 5 /\ ~MissingField(InputPath))
         => location = LocationOf(InputPath)
    /\ (IsPlain(segs) /\ Len(segs) >= 5)
         => \A s3 \in PlainSegs \cup {<<"t", "r", "e", "e">>} :
              parseGitHubUrl(Join([segs EXCEPT ![3] = s3], <<"/">>)) = location

\* C3 witness: six segments were parsed, the marker being empty
C3_Witness ==
  /\ Parsed /\ IsPlain(segs) /\ Len(segs) = 6 /\ segs[3] = <<>>
  /\ segs[5] # segs[6]
  /\ location = LocationOf(segs)
  /\ location.dir = segs[5] \o <<"/">> \o segs[6]

(***************************************************************************)
(* Properties of the walk, checked under Spec.                             *)
(***************************************************************************)
\* the number of segments of the requested path
Depth == Len(Split(location.dir, "/"))

ListCalls == {i \in 1..Len(calls) : calls[i].kind = "list"}

PathNotFound == error = "Could not find directory in tree"

\* C4: when the D segments of the path all exist as nested directories, the
\* walk issues one ref lookup and then D tree lookups, each only after the
\* one before it was answered and each on the tree that answer led to, and
\* then exactly one recursive listing request, on the tree reached last.
C4_CallsBeforeListing ==
  /\ Len(returned) >= Len(calls) - 1
  /\ inflight => Len(returned) = Len(calls) - 1
  /\ \A i \in 1..Len(calls) :
       /\ i = 1 => calls[i].kind = "ref"
       /\ i > 1 => calls[i].target = returned[i - 1]
       /\ calls[i].kind = "tree" => i \in 2..(Depth + 1)
       /\ calls[i].kind = "list" => i = Depth + 2
  /\ Cardinality(ListCalls) <= 1
  /\ (pc = "list" /\ ~inflight) => Len(calls) = Depth + 1 /\ ListCalls = {}
  /\ files # <<>> => ListCalls # {}

\* C4 witness: a path of two segments, both found, and the listing requested
\* on the second directory
C4_Witness ==
  /\ pc = "list" /\ inflight /\ Depth = 2
  /\ lookups = <<[directory |-> TRUE, file |-> FALSE], [directory |-> TRUE, file |-> TRUE]>>
  /\ returned = <<CommitSha, 1, 2>>
  /\ Len(calls) = 4 /\ calls[4] = [kind |-> "list", target |-> 2, auth |-> FALSE]

\* C5: when an answered tree lookup holds no Directory child named as the
\* current segment (a File child of that name does not count), the walk
\* fails with the path-not-found error and issues no further remote call: no
\* tree lookup, no recursive listing, no file fetch.
C5_PathNotFoundStops ==
  /\ (lookups # <<>> /\ ~lookups[Len(lookups)].directory) => PathNotFound
  /\ PathNotFound =>
       /\ ~lookups[Len(lookups)].directory
       /\ pc \in {"removing", "removed", "exit"}
       /\ ~inflight
       /\ Len(calls) = Len(lookups) + 1
       /\ calls[Len(calls)].kind = "tree"
       /\ ListCalls = {}
       /\ files = <<>> /\ status = <<>>

\* C5 witness: the second segment exists only as a file, and the run has
\* ended
C5_Witness ==
  /\ PathNotFound /\ pc = "exit" /\ Depth = 2
  /\ lookups = <<[directory |-> TRUE, file |-> FALSE], [directory |-> FALSE, file |-> TRUE]>>
  /\ Len(calls) = 3

(***************************************************************************)
(* Properties of the download stage.                                       *)
(***************************************************************************)
\* C6: at every moment of the download stage at most 8 file transfers have
\* started and not yet settled.
C6_ConcurrencyCap == Cardinality({i \in DOMAIN status : status[i] = "running"}) <= 8

\* C6 witness: of nine transfers one has failed, and the ninth, which had to
\* wait, runs beside seven of the first eight
C6_Witness ==
  /\ Len(files) = 9 /\ status[9] = "running"
  /\ Cardinality(Active(status)) = 8
  /\ \E i \in 1..8 : status[i] = "failed"

\* the download stage has signalled a failed transfer to the main flow
DownloadFailed == error = "download"

\* C7: a failed transfer does not make the download stage abandon the other
\* transfers: the stage signals failure to its caller only once every
\* submitted task has run to its own success or failure.
C7_ErrorsCollected ==
  DownloadFailed => \A i \in DOMAIN status : status[i] \in {"done", "failed"}

\* C8: after any failure that follows the creation of the temporary
\* directory the process exits with a non-zero code, and at that moment no
\* entry with the temporary directory's name exists.
C8_NoTempAtExit ==
  (pc = "exit" /\ temporaryDirectoryName # Undefined)
    => exitCode # 0 /\ temporaryDirectoryName \notin disk

\* C9: when a segment of the path is not a directory of the repository, no
\* file transfer is ever started, no directory is given a final name, and the
\* run comes to its end with exit code 1 and without its temporary directory.
C9_PathNotFoundRun ==
  PathNotFound =>
    /\ files = <<>> /\ status = <<>>
    /\ finalDirectoryName = Undefined
    /\ disk \subseteq ExistingBefore(MaxExisting) \cup {TmpName}
    /\ \/ pc = "removing" /\ exitCode = -1 /\ ENABLED RemoveTemp
       \/ pc = "removed" /\ exitCode = -1 /\ TmpName \notin disk /\ ENABLED Exit
       \/ pc = "exit" /\ exitCode = 1 /\ TmpName \notin disk

\* C9 witness: the run has exited after the first segment was not found
C9_Witness ==
  /\ PathNotFound /\ pc = "exit" /\ exitCode = 1
  /\ Len(lookups) = 1 /\ temporaryDirectoryName = TmpName /\ TmpName \notin disk

(***************************************************************************)
(* Properties of renameDirectory.                                          *)
(***************************************************************************)
\* C10: the temporary directory is renamed to the first of X, X-1, X-2, ...
\* that does not exist: X itself when X is free, X-k when X, ..., X-(k-1)
\* exist.
C10_FirstFreeCandidate ==
  finalDirectoryName # Undefined =>
    /\ finalDirectoryName = CurrentName(bestName, retries)
    /\ \A j \in 0..(retries - 1) : CurrentName(bestName, j) \in disk

\* C11: the base output name is the explicit output directory argument when
\* one is given; else the name of the downloaded manifest when the manifest
\* is readable and the name is not empty; else the repository, "-" and the
\* path with every "/" replaced by "-".  An unreadable or absent manifest is
\* no error: the run goes on to the rename.
C11_NamePrecedence ==
  bestName # Undefined =>
    /\ ~Falsy(userPreferredDirectoryName) => bestName = userPreferredDirectoryName
    /\ (Falsy(userPreferredDirectoryName) /\ ~Falsy(manifestName))
         => bestName = manifestName
    /\ (Falsy(userPreferredDirectoryName) /\ Falsy(manifestName))
         => /\ bestName = location.repository \o <<"-">> \o ReplaceSlashes(location.dir)
            /\ \A i \in 1..Len(bestName) : bestName[i] # "/"
    /\ error \in {"", "git"}
    /\ pc \in {"probe", "rename", "git", "done", "removing", "removed", "exit"}

\* C11 witness: no name was given and the manifest could not be read; the
\* directory got the name derived from a path of two segments
C11_Witness ==
  /\ userPreferredDirectoryName = <<>> /\ manifestName = Undefined
  /\ files # <<>> /\ location.dir = <<"a", "/", "b">>
  /\ bestName = <<"r", "-", "a", "-", "b">>
  /\ finalDirectoryName = bestName /\ pc = "done" /\ error = ""

(***************************************************************************)
(* Properties of the command line.                                         *)
(***************************************************************************)
\* C12: a command line with the source location alone, without an output
\* directory argument, is accepted: it is not rejected for the missing
\* argument, and the run goes on to parse the location.
C12_DirOptional ==
  userPreferredDirectoryName = Undefined =>
    /\ error # MissingDir
    /\ pc # "argv" => location # NoLocation

(***************************************************************************)
(* Properties of the progress counters, checked under SpecSizes.           *)
(***************************************************************************)
\* every file of the listing has a declared size, so that a transport can
\* report at most, and finally exactly, that size
Declared == \A i \in DOMAIN files : files[i].size # NoSize

\* C13: when every transport reports at most, and finally exactly, the
\* declared size of its file, the sum of transferredSize over the files never
\* exceeds the sum of their declared sizes, which is the total of the
\* progress bar, and when the download stage completes with every download
\* successful the two sums are equal.
C13_TransferredWithinTotal ==
  (progressBar # NoBar /\ Declared) =>
    /\ progressBar.total = SizeAll(files)
    /\ progressBar.value = SumTransferred(transferredSize)
    /\ SumTransferred(transferredSize) <= SizeAll(files)
    /\ (pc # "downloading" /\ AllDone(status))
         => SumTransferred(transferredSize) = SizeAll(files)

\* C13 witness: files of one and of two bytes were downloaded, and the bar
\* was stopped at 3 of 3
C13_Witness ==
  /\ pc = "bestName" /\ Len(files) = 2
  /\ files[1].size = 1 /\ files[2].size = 2
  /\ transferredSize = <<1, 2>>
  /\ progressBar = [total |-> 3, value |-> 3, active |-> FALSE]

(***************************************************************************)
(* Properties of get, checked under Spec.                                  *)
(***************************************************************************)
\* C14: however many API requests a run sends, the line that says whether the
\* API is used with a token or anonymously is printed at most once, and it
\* has been printed when the first API request is sent.
C14_AuthLoggedOnce ==
  /\ Len(authLog) <= 1
  /\ calls # <<>> => Len(authLog) = 1
  /\ authLog # <<>> => calls # <<>>
  /\ (authLog # <<>> /\ calls # <<>>)
       => authLog[1] = IF calls[1].auth THEN "token" ELSE "anonymously"

\* C14 witness: four API requests were sent and the line was printed once
C14_Witness ==
  /\ Len(calls) = 4 /\ authLog = <<"anonymously">> /\ helperCalls = 4

(***************************************************************************)
(* Properties of the end of a run, checked under Spec.                     *)
(***************************************************************************)
GitFailed == error = "git"

\* C15: when git init, add or commit fails, the failure is reported and the
\* run exits with code 1, and the directory, already under its final name,
\* stays with every downloaded file: the catch block removes nothing of it.
C15_GitFailureKeepsDownload ==
  GitFailed =>
    /\ pc \in {"removing", "removed", "exit"}
    /\ pc = "exit" <=> exitCode = 1
    /\ finalDirectoryName # Undefined /\ finalDirectoryName \in disk
    /\ written = 1..Len(files)
    /\ disk \ {finalDirectoryName} \subseteq ExistingBefore(MaxExisting)

\* C15 witness: git failed after two files were downloaded and the run has
\* exited
C15_Witness ==
  /\ GitFailed /\ pc = "exit" /\ exitCode = 1
  /\ Len(files) = 2 /\ written = {1, 2}
  /\ finalDirectoryName \in disk /\ temporaryDirectoryName \notin disk

\* the paths of the File-kind entries of a listing
BlobPaths(tree) ==
  {tree[i].path : i \in {j \in 1..Len(tree) : tree[j].type = "blob"}}

\* the final directory holds one file per File-kind entry of the listing, and
\* the temporary name is gone
FinalDirectoryComplete ==
  /\ finalDirectoryName \in disk
  /\ temporaryDirectoryName \notin disk
  /\ Len(files) = Cardinality(BlobPaths(recursiveTree))
  /\ {files[i].path : i \in 1..Len(files)} = BlobPaths(recursiveTree)
  /\ written = 1..Len(files)

\* C16 as stated: once resolution, the walk, every transfer and the rename
\* have succeeded, the run is on its way to exit code 0 and never on a
\* failure path: it has ended with code 0, the final name reported and the
\* final directory complete, or git initialization is about to run.
C16_SuccessRun ==
  finalDirectoryName # Undefined =>
    /\ FinalDirectoryComplete
    /\ \/ pc = "done" /\ exitCode = 0
       \/ pc = "git" /\ exitCode = -1 /\ ENABLED InitializeGit

\* C16 amended: once resolution, the walk, every transfer and the rename
\* have succeeded, and git initialization has not failed, the run has ended
\* with code 0 or is about to run git initialization; the final name is
\* reported, the final directory holds exactly one file per File-kind entry
\* of the listing and the temporary name exists no more; and a run ends with
\* code 0 in no other way.
C16_SuccessRunUnlessGitFails ==
  /\ (finalDirectoryName # Undefined /\ ~GitFailed) =>
       /\ FinalDirectoryComplete
       /\ \/ pc = "done" /\ exitCode = 0
          \/ pc = "git" /\ exitCode = -1 /\ ENABLED InitializeGit
  /\ exitCode = 0 => pc = "done" /\ finalDirectoryName # Undefined /\ ~GitFailed

\* C16 witness: a listing of a tree and a blob; the file is in the final
\* directory, which got the suffix 1 after a collision, and the run has
\* ended with code 0
C16_Witness ==
  /\ pc = "done" /\ exitCode = 0 /\ error = ""
  /\ Len(recursiveTree) = 2 /\ recursiveTree[1].type = "tree" /\ Len(files) = 1
  /\ written = {1} /\ retries = 1
  /\ finalDirectoryName = CurrentName(bestName, 1) /\ finalDirectoryName \in disk
  /\ temporaryDirectoryName \notin disk

(***************************************************************************)
(* Properties of the download stage, continued.                            *)
(***************************************************************************)
\* C17: the download stage returns to its caller, with success or failure,
\* only after every submitted task has settled, and the progress bar has
\* been stopped by then in both cases.
C17_ReturnsAfterAllSettled ==
  (progressBar # NoBar /\ pc # "downloading") =>
    /\ \A i \in DOMAIN status : status[i] \in {"done", "failed"}
    /\ ~progressBar.active

\* C18: a credential that is available is attached to every request of the
\* run: the ref lookup, each tree lookup, the recursive listing and each raw
\* file request; without a credential the same requests are sent without
\* one, and a helper that gives none does not keep the request from being
\* sent.
C18_CredentialOnEveryRequest ==
  /\ \A i \in 1..Len(calls) : \A j \in i..Len(calls) : calls[i].auth => calls[j].auth
  /\ calls # <<>> => (calls[Len(calls)].auth <=> GITHUB_TOKEN # NoToken)
  /\ \A k \in 1..Len(fetches) : fetches[k].auth <=> GITHUB_TOKEN # NoToken
  /\ helperCalls <= Len(calls)

\* C19: the credential helper is invoked at most once in a run, however many
\* API requests are sent and whether or not it gave a credential, and never
\* when the environment provides the credential.
C19_HelperOnce ==
  /\ helperCalls <= 1
  /\ GITHUB_TOKEN = "env" => helperCalls = 0

\* C20: the download tasks are exactly the File-kind entries of the recursive
\* listing, one task per entry, those without a size included; no
\* Directory-kind entry is fetched, every started task has sent one request
\* for its file and no file is requested twice.
C20_TasksAreTheBlobs ==
  progressBar # NoBar =>
    /\ Len(files) = Cardinality(BlobPaths(recursiveTree))
    /\ {files[i].path : i \in 1..Len(files)} = BlobPaths(recursiveTree)
    /\ Len(status) = Len(files)
    /\ \A k \in 1..Len(fetches) : fetches[k].target \in BlobPaths(recursiveTree)
    /\ \A j, k \in 1..Len(fetches) : j # k => fetches[j].target # fetches[k].target
    /\ \A i \in 1..Len(files) :
         (status[i] \in {"running", "done", "failed"})
           => \E k \in 1..Len(fetches) : fetches[k].target = files[i].path
    /\ \A i \in 1..Len(files) :
         status[i] = "queued"
           => \A k \in 1..Len(fetches) : fetches[k].target # files[i].path

\* C20 witness: a listing of a tree, a blob without a size and a blob of one
\* byte; the first file was downloaded, the transfer of the second failed
\* and was not tried again
C20_Witness ==
  /\ Len(recursiveTree) = 3 /\ recursiveTree[1].type = "tree"
  /\ Len(files) = 2 /\ files[1].size = NoSize /\ files[2].size = 1
  /\ status = <<"done", "failed">> /\ Len(fetches) = 2
  /\ pc = "removed"

(***************************************************************************)
(* Properties of the temporary directory, checked under Spec.              *)
(***************************************************************************)
\* the attempts of createTemporaryDirectory made so far: the failed ones,
\* and the one that succeeded
AttemptsMade == attempts + (IF temporaryDirectoryName # Undefined THEN 1 ELSE 0)

\* C21: the temporary directory is created in at most 4 attempts (one and
\* three retries); when all four fail the run ends with a non-zero exit code
\* and without having sent a remote request; when one succeeds no further
\* attempt is made, and one temporary directory exists, no more.
C21_BoundedTmpRetries ==
  /\ AttemptsMade <= 4
  /\ pc = "mktemp" => attempts < 4 /\ temporaryDirectoryName = Undefined
  /\ error = "mkdir" <=> (attempts = 4 /\ temporaryDirectoryName = Undefined)
  /\ error = "mkdir" =>
       /\ pc = "exit" /\ exitCode = 1
       /\ calls = <<>> /\ fetches = <<>> /\ helperCalls = 0
       /\ disk \subseteq ExistingBefore(MaxExisting)
  /\ temporaryDirectoryName # Undefined =>
       /\ pc # "mktemp" /\ attempts <= 3
       /\ (pc = "ref" /\ calls = <<>>) =>
            /\ temporaryDirectoryName \in disk
            /\ disk \ {temporaryDirectoryName} \subseteq ExistingBefore(MaxExisting)
  /\ calls # <<>> => temporaryDirectoryName # Undefined

\* C21 witness: the fourth attempt succeeded after three had failed, and the
\* walk has begun
C21_Witness ==
  /\ attempts = 3 /\ temporaryDirectoryName = TmpName
  /\ pc = "ref" /\ inflight /\ Len(calls) = 1
  /\ TmpName \in disk

(***************************************************************************)
(* Properties of the final rename, continued.                              *)
(***************************************************************************)
\* C22: during the final rename only a name collision moves the run on to
\* the next suffix: while the directory has no final name yet, every
\* candidate that was passed over exists; a failure of the rename that is no
\* collision is not answered with the next suffix.
C22_OnlyCollisionsRetried ==
  (bestName # Undefined /\ finalDirectoryName = Undefined)
    => \A j \in 0..(retries - 1) : CurrentName(bestName, j) \in disk

(***************************************************************************)
(* Properties of the order of the phases, checked under Spec.              *)
(***************************************************************************)
\* every file of the listing was transferred whole and is in the directory
DownloadComplete ==
  /\ Len(status) = Len(files)
  /\ \A i \in 1..Len(files) :
       /\ status[i] = "done"
       /\ Nullish(transferredSize[i], 0) = Bytes(files[i])
       /\ i \in written

\* C23: the phases of a run come in order: the naming and the rename start
\* only after every transfer has completed successfully, git initialization
\* only after the rename has succeeded, and the run is done only after both;
\* so a directory to which the run has given its final name never holds a
\* partial download.
C23_PhasesInOrder ==
  /\ pc \in {"bestName", "probe", "rename"} =>
       /\ DownloadComplete /\ ~progressBar.active
       /\ finalDirectoryName = Undefined /\ temporaryDirectoryName \in disk
  /\ bestName # Undefined => DownloadComplete
  /\ finalDirectoryName # Undefined => DownloadComplete /\ bestName # Undefined
  /\ pc \in {"git", "done"} =>
       /\ finalDirectoryName # Undefined /\ finalDirectoryName \in disk
       /\ temporaryDirectoryName \notin disk
  /\ GitFailed => finalDirectoryName # Undefined
  /\ pc = "done" <=> exitCode = 0
  /\ ~DownloadComplete =>
       disk \subseteq ExistingBefore(MaxExisting) \cup {temporaryDirectoryName}

\* C23 witness: git initialization is about to run on the renamed directory,
\* which holds both files of the listing
C23_Witness ==
  /\ pc = "git" /\ Len(files) = 2 /\ status = <<"done", "done">>
  /\ written = {1, 2} /\ transferredSize = <<1, 1>>
  /\ finalDirectoryName \in disk /\ temporaryDirectoryName \notin disk

(***************************************************************************)
(* Properties of two concurrent runs, checked under SpecRace.              *)
(***************************************************************************)
\* C24: when two runs resolve the same base name at the same time, then for
\* every interleaving of their probes and renames they end with different
\* final names, and the rename of neither replaces the directory that the
\* other has produced.
C24_DistinctFinalNames ==
  /\ ~peer.clobbered /\ ~peer.clobbering
  /\ (finalDirectoryName # Undefined /\ peer.finalDirectoryName # Undefined)
       => finalDirectoryName # peer.finalDirectoryName

====
